---- MODULE Spec2Model ----
(***************************************************************************)
(* A model of the goutil helpers:                                          *)
(*   - internal/gendoc: collectPgkFunc, bufWriteDoc, doWriteDoc2buf, main  *)
(*   - envutil: IsWSL                                                      *)
(*                                                                         *)
(* Strings are sequences of tokens (a token is a character or a fixed run  *)
(* of characters such as "func " or "util"); the string functions of the   *)
(* code (HasSuffix, IndexRune, TrimRight, Replace, Contains, the regular   *)
(* expression) work on these sequences position by position.               *)
(***************************************************************************)
EXTENDS Naturals, Sequences, FiniteSets, TLC

VARIABLES
  genOpts,              \* genOptsSt: [lang, output, tplDir]
  tplFS,                \* the files of the template directory: path -> content
  ms,                   \* collectPgkFunc: the files ranged over so far
  buf,                  \* collectPgkFunc / bufWriteDoc: the bytes.Buffer, one entry per write
  pkgFuncs,             \* collectPgkFunc: map pkgPath -> []string
  dirname,              \* collectPgkFunc: var dirname
  name,                 \* collectPgkFunc: var name
  pkgNames,             \* package-level map: short name -> full name
  cpc,                  \* collectPgkFunc: "loop" | "done" | "idle"
  docArgs,              \* bufWriteDoc: the arguments and buffer of the last call
  bufBytes,             \* main: buf.String(), the collected buffer as bytes
  outFile,              \* main: the named output file, "absent" or its bytes
  stdout,               \* main: what was printed to os.Stdout
  written,              \* main: the bytes handed to the writer `out`
  mpc,                  \* main: "start" | "done" | "panic" | "idle"
  detectedWSL,          \* envutil: var detectedWSL
  detectedWSLContents,  \* envutil: var detectedWSLContents
  procVersion,          \* the pseudo-file /proc/version: "absent" or its contents
  opens,                \* number of os.Open("/proc/version") calls made
  results,              \* the values the IsWSL calls returned, in order
  text,                 \* signature scan: the file text, one line
  lines,                \* signature scan: the recorded signature lines
  spc                   \* signature scan: "read" | "scanned" | "idle"

optVars  == <<genOpts, tplFS>>
colVars  == <<ms, buf, pkgFuncs, dirname, name, pkgNames, cpc>>
docVars  == <<docArgs>>
mainVars == <<bufBytes, outFile, stdout, written, mpc>>
wslVars  == <<detectedWSL, detectedWSLContents, procVersion, opens, results>>
sigVars  == <<text, lines, spc>>
vars     == <<optVars, colVars, docVars, mainVars, wslVars, sigVars>>

(***************************************************************************)
(* Bounds                                                                  *)
(***************************************************************************)
MaxFiles   == 5    \* files in one collectPgkFunc run
MaxLineLen == 6    \* tokens in a scanned source line
MaxDocCalls == 2   \* bufWriteDoc calls in one run of the fragment model
MaxTplLen  == 4    \* bytes of the top-level template
MaxBufLen  == 2    \* bytes of the collected buffer in the model of main
MaxOldLen  == 3    \* bytes already in the output file
MaxCalls   == 4    \* IsWSL calls in one process

(***************************************************************************)
(* String functions                                                        *)
(***************************************************************************)
HasSuffix(s, suffix) ==
  /\ Len(s) >= Len(suffix)
  /\ SubSeq(s, Len(s) - Len(suffix) + 1, Len(s)) = suffix

\* strings.IndexRune, 1-based; 0 when the rune is absent
IndexRune(s, r) ==
  IF \E i \in 1..Len(s) : s[i] = r
  THEN CHOOSE i \in 1..Len(s) : s[i] = r /\ \A h \in 1..(i - 1) : s[h] # r
  ELSE 0

StringsHas(ss, s) == \E i \in 1..Len(ss) : ss[i] = s

RECURSIVE TrimRight(_, _)
TrimRight(s, cutset) ==
  IF Len(s) > 0 /\ s[Len(s)] \in cutset
  THEN TrimRight(SubSeq(s, 1, Len(s) - 1), cutset)
  ELSE s

\* strings.Index, 1-based; 0 when old does not occur in s
Index(s, old) ==
  LET At(i) == SubSeq(s, i, i + Len(old) - 1) = old
      Pos == {i \in 1..(Len(s) - Len(old) + 1) : At(i)}
  IN IF Pos = {} THEN 0 ELSE CHOOSE i \in Pos : \A h \in Pos : i <= h

\* Replace1 that loses the text after the replaced occurrence
Replace1_DropsTail(s, old, new) ==
  LET i == Index(s, old)
  IN IF i = 0 THEN s ELSE SubSeq(s, 1, i - 1) \o new

\* strings.Replace(s, old, new, 1)
Replace1(s, old, new) ==
  LET i == Index(s, old)
  IN IF i = 0 THEN s
     ELSE SubSeq(s, 1, i - 1) \o new \o SubSeq(s, i + Len(old), Len(s))

Contains(s, tok) == \E i \in 1..Len(s) : s[i] = tok

(***************************************************************************)
(* The signature pattern: func [A-Z]\w+\(.*\).*                            *)
(***************************************************************************)
SigChars == {"func ", "F", "o", "(", ")", "{", " "}
UpperCh  == {"F"}            \* [A-Z]
WordCh   == {"F", "o"}       \* \w

RECURSIVE WordRunEnd(_, _)
WordRunEnd(line, j) ==
  IF j <= Len(line) /\ line[j] \in WordCh THEN WordRunEnd(line, j + 1) ELSE j

\* whether the pattern matches starting at position i of the line
MatchAt(line, i) ==
  /\ line[i] = "func "                                   \* func, a space
  /\ i + 1 <= Len(line) /\ line[i + 1] \in UpperCh       \* [A-Z]
  /\ LET j == WordRunEnd(line, i + 2)                    \* \w+
     IN /\ j > i + 2
        /\ j <= Len(line) /\ line[j] = "("               \* \(
        /\ \E k \in (j + 1)..Len(line) : line[k] = ")"   \* .*\)

\* the leftmost match in one line runs to the end of the line (the last .*)
FindInLine(line) ==
  LET Pos == {i \in 1..Len(line) : MatchAt(line, i)}
  IN IF Pos = {} THEN <<>>
     ELSE <<SubSeq(line, CHOOSE i \in Pos : \A h \in Pos : i <= h, Len(line))>>

\* reg.FindAllString(text, -1), the text given as its lines
RECURSIVE FindAllString(_)
FindAllString(txt) ==
  IF txt = <<>> THEN <<>>
  ELSE FindInLine(Head(txt)) \o FindAllString(Tail(txt))

TrimCut == {"{", " "}

\* TrimmedLines without the TrimRight
TrimmedLines_NoTrim(found) == found

\* strings.TrimRight(line, "{ ") of every match
TrimmedLines(found) == [n \in 1..Len(found) |-> TrimRight(found[n], TrimCut)]

(***************************************************************************)
(* Package-level values of internal/gendoc                                 *)
(***************************************************************************)
hidden == << <<"net", "util">>, <<"num", "util">>, <<"internal">> >>

nameMap ==
  (<<"arr">> :> <<"array/Slice">>) @@ (<<"str">> :> <<"string">>) @@
  (<<"sys">> :> <<"system">>) @@ (<<"math">> :> <<"math/Number">>) @@
  (<<"fs">> :> <<"fileSystem">>) @@ (<<"fmt">> :> <<"formatting">>) @@
  (<<"test">> :> <<"testing">>) @@ (<<"dump">> :> <<"dump">>) @@
  (<<"structs">> :> <<"struct">>) @@ (<<"json">> :> <<"JSON">>) @@
  (<<"cli">> :> <<"CLI">>) @@ (<<"env">> :> <<"ENV">>) @@
  (<<"std">> :> <<"standard">>)

partDocTplS == <<"part-", "%s", "-s", "%s", ".md">>
partDocTplE == <<"part-", "%s", "%s", ".md">>

basePkg == "github.com/gookit/goutil"

TplDirDefault == "./internal/template"

\* fmt.Sprintf for a format whose verbs are all %s
RECURSIVE Sprintf(_, _)
Sprintf(f, args) ==
  IF f = <<>> THEN <<>>
  ELSE IF Head(f) = "%s" THEN Head(args) \o Sprintf(Tail(f), Tail(args))
       ELSE <<Head(f)>> \o Sprintf(Tail(f), args)

\* strutil.UpperFirst
UpperFirst(s) ==
  LET up == ("array/Slice" :> "Array/Slice") @@ ("dump" :> "Dump") @@ ("arr" :> "Arr")
  IN IF s # <<>> /\ s[1] \in DOMAIN up THEN <<up[s[1]]>> \o Tail(s) ELSE s

\* fsutil.ReadExistFile: the content of the file, nothing when there is no file
ReadExistFile(fs, path) == IF path \in DOMAIN fs THEN fs[path] ELSE <<>>

(***************************************************************************)
(* Doc fragments                                                           *)
(***************************************************************************)
\* returns the buffer and the bool of doWriteDoc2buf
doWriteDoc2buf(b, filename, opts, fs) ==
  LET partFile == <<opts.tplDir, "/">> \o filename
      partBody == ReadExistFile(fs, partFile)
  IN IF Len(partBody) > 0
     THEN [buf |-> Append(b, partBody), ok |-> TRUE]
     ELSE [buf |-> b, ok |-> FALSE]

LangSuffix(opts) == IF opts.lang # "en" THEN <<".", opts.lang>> ELSE <<>>

\* bufWriteDoc without the fallback to the default-language file
bufWriteDoc_NoFallback(b, partNameTpl, pkgName, opts, fs) ==
  doWriteDoc2buf(b, Sprintf(partNameTpl, <<pkgName, LangSuffix(opts)>>), opts, fs).buf

bufWriteDoc(b, partNameTpl, pkgName, opts, fs) ==
  LET lang     == LangSuffix(opts)
      filename == Sprintf(partNameTpl, <<pkgName, lang>>)
      first    == doWriteDoc2buf(b, filename, opts, fs)
  IN IF ~first.ok
     THEN doWriteDoc2buf(first.buf, Sprintf(partNameTpl, <<pkgName, <<>> >>), opts, fs).buf
     ELSE first.buf

(***************************************************************************)
(* collectPgkFunc                                                          *)
(***************************************************************************)
\* the source tree the file names come from: file name -> text (its lines)
SrcTree ==
  (<<"arr", "util", "/", "arr", "util", ".go">> :>
      << <<"func ", "F", "o", "(", ")", " ", "{">> >>) @@
  (<<"arr", "util", "/", "check", ".go">> :>
      << <<"func ", "o", "o", "(", ")", " ", "{">> >>) @@
  (<<"arr", "util", "/", "format", ".go">> :>
      << <<"func ", "F", "o", "o", "(", "o", ")", " ", "o", " ", "{">>,
         <<"func ", "F", "F", "(", ")", "{">> >>) @@
  (<<"arr", "util", "/", "arr", "util", "_test", ".go">> :>
      << <<"func ", "F", "o", "(", "o", ")", " ", "{">> >>) @@
  (<<"dump", "/", "dump", ".go">> :>
      << <<"func ", "F", "o", "F", "(", ")", " ", "{">> >>) @@
  (<<"dump", "/", "dump", "_windows", ".go">> :>
      << <<"func ", "F", "o", "(", ")", " ", "{">> >>) @@
  (<<"dump", "/", "dump", "_linux", ".go">> :>
      << <<"func ", "F", "o", "(", ")", " ", "{">> >>) @@
  (<<"internal", "/", "gen", ".go">> :>
      << <<"func ", "F", "o", "(", ")", " ", "{">> >>)

\* fsutil.MustReadFile of a file of the source tree
ReadSource(filename) == SrcTree[filename]

DirOf(filename) == SubSeq(filename, 1, IndexRune(filename, "/") - 1)

\* Skip without the _windows.go test
Skip_KeepsWindows(filename) ==
  \/ HasSuffix(filename, <<"_test", ".go">>)
  \/ StringsHas(hidden, DirOf(filename))

\* the three `continue` tests at the head of the loop body
Skip(filename) ==
  \/ HasSuffix(filename, <<"_test", ".go">>)
  \/ HasSuffix(filename, <<"_windows", ".go">>)
  \/ StringsHas(hidden, DirOf(filename))

PkgPath(dir) == <<basePkg, "/">> \o dir

\* name: the directory name without a trailing "util", remapped by nameMap
DisplayName(dir) ==
  LET short == IF HasSuffix(dir, <<"util">>)
               THEN SubSeq(dir, 1, Len(dir) - Len(<<"util">>))
               ELSE dir
  IN IF short \in DOMAIN nameMap THEN nameMap[short] ELSE short

\* the lines of a code fence; "bq" is a backquote, "nl" a line break
Fence   == <<"bq", "bq", "bq">>
FenceGo == <<"bq", "bq", "bq", "go">>

\* ClosePrev without the closing fence line
ClosePrev_NoFence(b, pf, dn, opts, fs) ==
  IF Cardinality(DOMAIN pf) > 0
  THEN bufWriteDoc(b, partDocTplE, dn, opts, fs)
  ELSE b

\* end of prev package: close its fence, load its doc file
ClosePrev(b, pf, dn, opts, fs) ==
  IF Cardinality(DOMAIN pf) > 0
  THEN bufWriteDoc(Append(b, Fence), partDocTplE, dn, opts, fs)
  ELSE b

\* heading line, package line, start doc file, fence
OpenSection(b, dir, nm, opts, fs) ==
  LET b1 == Append(b, <<"nl", "###">> \o UpperFirst(nm))
      b2 == Append(b1, <<"nl", "> Package ", "bq">> \o PkgPath(dir) \o <<"bq", "nl", "nl">>)
      b3 == bufWriteDoc(b2, partDocTplS, nm, opts, fs)
  IN Append(b3, FenceGo)

\* the source annotation and the trimmed signature lines of one file
WriteSigs(b, filename) ==
  LET found == FindAllString(ReadSource(filename))
  IN IF Len(found) > 0
     THEN Append(b, <<"// source at">> \o filename) \o TrimmedLines(found)
     ELSE b

\* one iteration of the loop over ms
CollectFile(filename) ==
  /\ cpc = "loop"
  /\ Len(ms) < MaxFiles
  /\ \A i \in 1..Len(ms) : ms[i] # filename
  /\ ms' = Append(ms, filename)
  /\ IF Skip(filename)
     THEN UNCHANGED <<buf, pkgFuncs, dirname, name, pkgNames>>
     ELSE LET dir     == DirOf(filename)
              pkgPath == PkgPath(dir)
          IN /\ pkgNames' = [d \in DOMAIN pkgNames \cup {dir} |->
                               IF d = dir THEN pkgPath ELSE pkgNames[d]]
             /\ IF pkgPath \in DOMAIN pkgFuncs
                THEN /\ pkgFuncs' = [pkgFuncs EXCEPT ![pkgPath] = Append(@, "added")]
                     /\ buf' = WriteSigs(buf, filename)
                     /\ UNCHANGED <<dirname, name>>
                ELSE LET nm == DisplayName(dir)
                         b1 == ClosePrev(buf, pkgFuncs, dirname, genOpts, tplFS)
                         b2 == OpenSection(b1, dir, nm, genOpts, tplFS)
                     IN /\ dirname' = dir
                        /\ name' = nm
                        /\ pkgFuncs' = [p \in DOMAIN pkgFuncs \cup {pkgPath} |->
                                          IF p = pkgPath THEN <<"xx">> ELSE pkgFuncs[p]]
                        /\ buf' = WriteSigs(b2, filename)
  /\ UNCHANGED cpc

\* after the loop: close the last fence, load the last doc file
Flush(b, pf, dn, opts, fs) ==
  IF Cardinality(DOMAIN pf) > 0
  THEN bufWriteDoc(Append(b, Fence), partDocTplE, dn, opts, fs)
  ELSE b

CollectReturn ==
  /\ cpc = "loop"
  /\ buf' = Flush(buf, pkgFuncs, dirname, genOpts, tplFS)
  /\ cpc' = "done"
  /\ UNCHANGED <<ms, pkgFuncs, dirname, name, pkgNames>>

(***************************************************************************)
(* The run of collectPgkFunc over a sequence of file names                 *)
(***************************************************************************)
ColIdle  == /\ ms = <<>> /\ buf = <<>> /\ pkgFuncs = <<>> /\ dirname = <<>>
            /\ name = <<>> /\ pkgNames = <<>> /\ cpc = "idle"
DocIdle  == docArgs = <<>>
MainIdle == /\ bufBytes = <<>> /\ outFile = [exists |-> FALSE, data |-> <<>>]
            /\ stdout = <<>> /\ written = <<>> /\ mpc = "idle"
WslIdle  == /\ detectedWSL = FALSE /\ detectedWSLContents = <<>>
            /\ procVersion = [exists |-> FALSE, data |-> <<>>]
            /\ opens = 0 /\ results = <<>>
SigIdle  == text = <<>> /\ lines = <<>> /\ spc = "idle"

Langs == {"en", "zh-CN"}

\* the names a fragment file may be looked up under
FragNames == {<<"array/Slice">>, <<"arr", "util">>, <<"dump">>}

FragPath(tpl, pkgName, lang) == <<TplDirDefault, "/">> \o Sprintf(tpl, <<pkgName, lang>>)

\* a template directory with no fragment file
EmptyFS == <<>>

\* a template directory with every default-language fragment, and the zh-CN
\* start fragment of dump
FullFragFS ==
  LET paths == {FragPath(t, n, <<>>) : t \in {partDocTplS, partDocTplE}, n \in FragNames}
                 \cup {FragPath(partDocTplS, <<"dump">>, <<".", "zh-CN">>)}
  IN [p \in paths |-> <<"text of">> \o p]

Init ==
  /\ genOpts \in {[lang |-> l, output |-> "stdout", tplDir |-> TplDirDefault] : l \in Langs}
  /\ tplFS \in {EmptyFS, FullFragFS}
  /\ ms = <<>> /\ buf = <<>> /\ pkgFuncs = <<>> /\ dirname = <<>> /\ name = <<>>
  /\ pkgNames = <<>> /\ cpc = "loop"
  /\ DocIdle /\ MainIdle /\ WslIdle /\ SigIdle

Next ==
  \/ \E filename \in DOMAIN SrcTree :
       CollectFile(filename) /\ UNCHANGED <<optVars, docVars, mainVars, wslVars, sigVars>>
  \/ CollectReturn /\ UNCHANGED <<optVars, docVars, mainVars, wslVars, sigVars>>

Spec == Init /\ [][Next]_vars

(***************************************************************************)
(* Reading the buffer back                                                 *)
(***************************************************************************)
IsHeading(e)  == Len(e) >= 2 /\ e[1] = "nl" /\ e[2] = "###"
IsPkgLine(e)  == Len(e) >= 2 /\ e[1] = "nl" /\ e[2] = "> Package "
IsSource(e)   == Len(e) >= 1 /\ e[1] = "// source at"
IsSig(e)      == Len(e) >= 1 /\ e[1] = "func "
IsFragment(e) == Len(e) >= 1 /\ e[1] = "text of"
IsOpen(e)     == e = FenceGo
IsClose(e)    == e = Fence

\* the package keys of the section headers of a buffer, in order
HeaderKeys(b) ==
  LET hs == SelectSeq(b, IsPkgLine)
  IN [i \in 1..Len(hs) |-> SubSeq(hs[i], 6, Len(hs[i]) - 3)]

IsTestFile(f)     == HasSuffix(f, <<"_test", ".go">>)
IsWindowsFile(f)  == HasSuffix(f, <<"_windows", ".go">>)
IsPlatformFile(f) == \E os \in {"_windows", "_linux"} : HasSuffix(f, <<os, ".go">>)
InHiddenDir(f)    == SubSeq(f, 1, IndexRune(f, "/") - 1) \in {hidden[i] : i \in 1..Len(hidden)}

\* kept: the hidden, test and _windows.go files dropped
KeptWin(f)  == ~InHiddenDir(f) /\ ~IsTestFile(f) /\ ~IsWindowsFile(f)
\* kept: the hidden, test and platform-specific files dropped
KeptPlat(f) == ~InHiddenDir(f) /\ ~IsTestFile(f) /\ ~IsPlatformFile(f)

KeptKeys(files) ==
  LET k == SelectSeq(files, KeptWin)
  IN [i \in 1..Len(k) |-> SubSeq(k[i], 1, IndexRune(k[i], "/") - 1)]

\* one key for every maximal run of equal consecutive keys
RECURSIVE RunKeys(_)
RunKeys(keys) ==
  IF Len(keys) <= 1 THEN keys
  ELSE IF keys[1] = keys[2] THEN RunKeys(Tail(keys))
       ELSE <<keys[1]>> \o RunKeys(Tail(keys))

Count(b, Test(_)) == Len(SelectSeq(b, Test))

\* C1: when collectPgkFunc returns, the buffer holds one section header (heading
\* line and package line) and one fence pair for every maximal run of consecutive
\* kept files with the same package key, in input order.
C1_HeaderPerRun ==
  cpc = "done" =>
    /\ HeaderKeys(buf) = RunKeys(KeptKeys(ms))
    /\ Count(buf, IsHeading) = Len(RunKeys(KeptKeys(ms)))
    /\ Count(buf, IsOpen) = Len(RunKeys(KeptKeys(ms)))
    /\ Count(buf, IsClose) = Len(RunKeys(KeptKeys(ms)))

\* the place in a section the writer is at after the entries of b
RECURSIVE FenceState(_, _)
FenceState(b, st) ==
  IF b = <<>> THEN st
  ELSE LET e == Head(b)
           nx == CASE st = "none"      /\ IsHeading(e)  -> "heading"
                   [] st = "heading"   /\ IsPkgLine(e)  -> "pkgline"
                   [] st = "pkgline"   /\ IsFragment(e) -> "startdoc"
                   [] st = "pkgline"   /\ IsOpen(e)     -> "open"
                   [] st = "startdoc"  /\ IsOpen(e)     -> "open"
                   [] st = "open"      /\ IsSource(e)   -> "open"
                   [] st = "open"      /\ IsSig(e)      -> "open"
                   [] st = "open"      /\ IsClose(e)    -> "closed"
                   [] st = "closed"    /\ IsFragment(e) -> "enddoc"
                   [] st = "closed"    /\ IsHeading(e)  -> "heading"
                   [] st = "enddoc"    /\ IsHeading(e)  -> "heading"
                   [] OTHER -> "bad"
       IN FenceState(Tail(b), nx)

\* C2: at most one fence is open at any time; a fence is opened only after a
\* section header with no fence open, source and signature lines are written
\* only inside a fence, every fence is closed once before the next header or at
\* the end of input, and an empty input leaves a buffer without a fence.
C2_FenceDiscipline ==
  /\ cpc = "loop" => FenceState(buf, "none") \in {"none", "open"}
  /\ cpc = "done" => FenceState(buf, "none") \in {"none", "closed", "enddoc"}
  /\ cpc = "done" => Count(buf, IsOpen) = Count(buf, IsClose)
  /\ (cpc = "done" /\ SelectSeq(ms, KeptWin) = <<>>) => buf = <<>>
  /\ (cpc = "done" /\ SelectSeq(ms, KeptWin) # <<>>) => Count(buf, IsOpen) >= 1

C2_Witness ==
  /\ cpc = "done"
  /\ Count(buf, IsClose) >= 2
  /\ Count(buf, IsSig) >= 2
  /\ Count(buf, IsFragment) >= 3

RECURSIVE SumLen(_, _)
SumLen(f, keys) ==
  IF keys = {} THEN 0
  ELSE LET k == CHOOSE k \in keys : TRUE
       IN Len(f[k]) + SumLen(f, keys \ {k})

\* the file declares an exported function
HasMatch(f) == \E i \in 1..Len(SrcTree[f]) :
                  /\ Len(SrcTree[f][i]) >= 2
                  /\ SrcTree[f][i][1] = "func "
                  /\ SrcTree[f][i][2] \in UpperCh

\* the files that contribute are exactly those Kept accepts
Contributors(Kept(_)) ==
  LET kept == SelectSeq(ms, Kept)
      srcs == SelectSeq(buf, IsSource)
      with == SelectSeq(kept, HasMatch)
  IN /\ [i \in 1..Len(srcs) |-> Tail(srcs[i])] = with
     /\ DOMAIN pkgNames = {SubSeq(kept[i], 1, IndexRune(kept[i], "/") - 1) : i \in 1..Len(kept)}
     /\ SumLen(pkgFuncs, DOMAIN pkgFuncs) = Len(kept)
     /\ {HeaderKeys(buf)[i] : i \in 1..Len(HeaderKeys(buf))} = DOMAIN pkgNames

\* C3 as stated: the contributing files are exactly those outside the hidden
\* directories that end neither in the test suffix nor in a platform-specific
\* suffix (_windows.go, _linux.go).
C3_PlatformFilesExcluded == cpc \in {"loop", "done"} => Contributors(KeptPlat)

\* C3 as amended: the contributing files are exactly those outside the hidden
\* directories that end neither in _test.go nor in _windows.go; a file scoped to
\* another operating system (_linux.go) contributes like any other file.
C3_WindowsFilesExcluded == cpc \in {"loop", "done"} => Contributors(KeptWin)

C3_Witness ==
  /\ cpc = "done"
  /\ \E i \in 1..Len(ms) : IsTestFile(ms[i])
  /\ \E i \in 1..Len(ms) : IsWindowsFile(ms[i])
  /\ \E i \in 1..Len(ms) : InHiddenDir(ms[i])
  /\ \E i \in 1..Len(ms) : IsPlatformFile(ms[i]) /\ ~IsWindowsFile(ms[i])
  /\ Count(buf, IsSource) >= 2

\* the fragments a run writes when every section's start and end fragment is
\* looked up under the section's display name
RECURSIVE FragmentsByDisplayName(_)
FragmentsByDisplayName(keys) ==
  IF keys = <<>> THEN <<>>
  ELSE << <<"text of">> \o FragPath(partDocTplS, DisplayName(Head(keys)), <<>>),
          <<"text of">> \o FragPath(partDocTplE, DisplayName(Head(keys)), <<>>) >>
       \o FragmentsByDisplayName(Tail(keys))

\* C4: with every default-language fragment file present, each section's start
\* fragment and end fragment are the ones named by the section's display name.
C4_FragmentsUnderDisplayName ==
  (cpc = "done" /\ tplFS = FullFragFS /\ genOpts.lang = "en") =>
     SelectSeq(buf, IsFragment) = FragmentsByDisplayName(HeaderKeys(buf))

(***************************************************************************)
(* bufWriteDoc called on its own, over template directories and languages  *)
(***************************************************************************)
DocLangs == {"en", "zh-CN", "fr"}
DocPkgs  == {<<"dump">>, <<"str">>}
DocTpls  == {partDocTplS, partDocTplE}

\* the fragment files of dump: default language, zh-CN, fr
DocFiles ==
  {FragPath(t, <<"dump">>, l) : t \in DocTpls, l \in {<<>>, <<".", "zh-CN">>, <<".", "fr">>}}

\* each file is absent, empty, or holds text
DocDirs ==
  {[p \in {q \in DocFiles : a[q] # "absent"} |->
      IF a[p] = "empty" THEN <<>> ELSE <<"text of">> \o p] :
   a \in [DocFiles -> {"absent", "empty", "text"}]}

InitDoc ==
  /\ genOpts \in {[lang |-> l, output |-> "stdout", tplDir |-> TplDirDefault] : l \in DocLangs}
  /\ tplFS \in DocDirs
  /\ buf = <<>> /\ docArgs = <<>>
  /\ ms = <<>> /\ pkgFuncs = <<>> /\ dirname = <<>> /\ name = <<>>
  /\ pkgNames = <<>> /\ cpc = "idle"
  /\ MainIdle /\ WslIdle /\ SigIdle

\* one call bufWriteDoc(buf, partNameTpl, pkgName)
DocCall(partNameTpl, pkgName) ==
  /\ (IF docArgs = <<>> THEN 0 ELSE docArgs.n) < MaxDocCalls
  /\ buf' = bufWriteDoc(buf, partNameTpl, pkgName, genOpts, tplFS)
  /\ docArgs' = [tpl |-> partNameTpl, pkg |-> pkgName, before |-> buf,
                 n |-> (IF docArgs = <<>> THEN 0 ELSE docArgs.n) + 1]
  /\ UNCHANGED <<ms, pkgFuncs, dirname, name, pkgNames, cpc>>
  /\ UNCHANGED <<optVars, mainVars, wslVars, sigVars>>

NextDoc == \E t \in DocTpls, k \in DocPkgs : DocCall(t, k)

SpecDoc == InitDoc /\ [][NextDoc]_vars

\* the text of a fragment file, nothing when the file is absent or empty
FragText(kind, pkg, suffix) ==
  LET p == <<TplDirDefault, "/", "part-">> \o pkg
             \o (IF kind = partDocTplS THEN <<"-s">> ELSE <<>>) \o suffix \o <<".md">>
  IN IF p \in DOMAIN tplFS THEN tplFS[p] ELSE <<>>

\* C5: a call appends the language-specific fragment's text when that file has
\* content, otherwise the default-language fragment's text when that file has
\* content, otherwise nothing; never both.
C5_FragmentFallback ==
  docArgs # <<>> =>
    LET own == IF genOpts.lang = "en" THEN <<>>
               ELSE FragText(docArgs.tpl, docArgs.pkg, <<".", genOpts.lang>>)
        def == FragText(docArgs.tpl, docArgs.pkg, <<>>)
    IN buf = docArgs.before \o (IF own # <<>> THEN <<own>>
                                ELSE IF def # <<>> THEN <<def>> ELSE <<>>)

C5_Witness ==
  /\ docArgs # <<>>
  /\ genOpts.lang = "fr"
  /\ FragText(docArgs.tpl, docArgs.pkg, <<".", "fr">>) = <<>>
  /\ FragText(docArgs.tpl, docArgs.pkg, <<>>) # <<>>
  /\ buf = docArgs.before \o <<FragText(docArgs.tpl, docArgs.pkg, <<>>)>>

(***************************************************************************)
(* main: template loading and output                                       *)
(***************************************************************************)
\* bytes of templates and buffers; the token {{pgkFuncs}} is two of them in a row
Bytes == {"{{pgkFuncs", "}}", "x"}
Placeholder == <<"{{pgkFuncs", "}}">>

SeqsUpTo(S, n) == UNION {[1..k -> S] : k \in 0..n}

tplFilename(opts) ==
  IF opts.lang = "en" THEN <<"README.md.tpl">>
  ELSE Sprintf(<<"README.", "%s", ".md.tpl">>, << <<opts.lang>> >>)

\* path.Join of a directory and a file name
PathJoin(dir, file) == IF dir = "" THEN file ELSE <<dir, "/">> \o file

tplFilepath(opts, givePath) ==
  IF givePath # <<>> THEN PathJoin(opts.tplDir, givePath)
  ELSE PathJoin(opts.tplDir, tplFilename(opts))

\* fsutil.MustReadFile: the content, or a panic (ok = FALSE) when the file cannot be read
MustReadFile(fs, path) ==
  IF path \in DOMAIN fs THEN [ok |-> TRUE, body |-> fs[path]]
  ELSE [ok |-> FALSE, body |-> <<>>]

\* LoadTemplate that reads the template only when the file is there
LoadTemplate_Lenient(opts, fs) ==
  IF opts.tplDir # "" /\ tplFilepath(opts, <<>>) \in DOMAIN fs
  THEN MustReadFile(fs, tplFilepath(opts, <<>>))
  ELSE [ok |-> TRUE, body |-> <<>>]

\* var tplBody []byte; read when a template directory is set
LoadTemplate(opts, fs) ==
  IF opts.tplDir # "" THEN MustReadFile(fs, tplFilepath(opts, <<>>))
  ELSE [ok |-> TRUE, body |-> <<>>]

\* what is handed to the writer: the template with the buffer spliced in, or the buffer
Render(tplBody, b) ==
  IF Len(tplBody) > 0 THEN Replace1(tplBody, Placeholder, b) ELSE b

\* os.OpenFile(output, O_CREATE|O_WRONLY, perm): the file as it is, made empty when absent
OpenFile(file) == [exists |-> TRUE, data |-> IF file.exists THEN file.data ELSE <<>>]

\* a write at offset 0 of a file opened without O_TRUNC: bytes past the data stay
WriteFile(file, data) ==
  [exists |-> TRUE, data |-> data \o SubSeq(file.data, Len(data) + 1, Len(file.data))]

OutputNames == {"stdout", "README.md"}

OldFiles ==
  {[exists |-> FALSE, data |-> <<>>]}
    \cup {[exists |-> TRUE, data |-> [i \in 1..k |-> "old"]] : k \in 0..MaxOldLen}

\* template directories: no template, the en template, the en and zh-CN templates
TplDirs ==
  LET en == <<TplDirDefault, "/", "README.md.tpl">>
      zh == <<TplDirDefault, "/", "README.", "zh-CN", ".md.tpl">>
  IN {[p \in S |-> t] : S \in {{}, {en}, {en, zh}}, t \in SeqsUpTo(Bytes, MaxTplLen)}

\* bufBytes is what collectPgkFunc returned, as bytes: any byte string
InitMain ==
  /\ genOpts \in [lang : Langs, output : OutputNames, tplDir : {"", TplDirDefault}]
  /\ tplFS \in TplDirs
  /\ bufBytes \in SeqsUpTo(Bytes, MaxBufLen)
  /\ outFile \in OldFiles
  /\ (genOpts.output = "stdout" => ~outFile.exists)
  /\ stdout = <<>> /\ written = <<>> /\ mpc = "start"
  /\ ColIdle /\ DocIdle /\ WslIdle /\ SigIdle

\* main, from the opening of the output to the write
Main ==
  /\ mpc = "start"
  /\ LET toFile == genOpts.output # "stdout"
         opened == IF toFile THEN OpenFile(outFile) ELSE outFile
         tpl    == LoadTemplate(genOpts, tplFS)
         data   == Render(tpl.body, bufBytes)
     IN IF ~tpl.ok
        THEN /\ mpc' = "panic"
             /\ outFile' = opened
             /\ UNCHANGED <<stdout, written>>
        ELSE /\ mpc' = "done"
             /\ written' = data
             /\ IF toFile
                THEN outFile' = WriteFile(opened, data) /\ UNCHANGED stdout
                ELSE stdout' = stdout \o data /\ UNCHANGED outFile
  /\ UNCHANGED <<bufBytes, optVars, colVars, docVars, wslVars, sigVars>>

NextMain == Main

SpecMain == InitMain /\ [][NextMain]_vars

\* the template file main reads for the selected language
TplPath == <<genOpts.tplDir, "/">> \o
             (IF genOpts.lang = "en" THEN <<"README.md.tpl">>
              ELSE <<"README.", genOpts.lang, ".md.tpl">>)

Occurrences(s, tok) ==
  Cardinality({i \in 1..Len(s) : i + Len(tok) - 1 <= Len(s) /\ SubSeq(s, i, i + Len(tok) - 1) = tok})

\* C6: when the loaded template holds the placeholder exactly once, what is
\* written is the template's text before the placeholder, the buffer, and the
\* template's text after the placeholder.
C6_PlaceholderReplaced ==
  (mpc = "done" /\ genOpts.tplDir # "" /\ Occurrences(tplFS[TplPath], Placeholder) = 1) =>
     \E i \in 1..(Len(tplFS[TplPath]) - 1) :
        /\ SubSeq(tplFS[TplPath], i, i + 1) = Placeholder
        /\ written = SubSeq(tplFS[TplPath], 1, i - 1) \o bufBytes
                       \o SubSeq(tplFS[TplPath], i + 2, Len(tplFS[TplPath]))
        /\ (genOpts.output = "stdout" => stdout = written)

C6_Witness ==
  /\ mpc = "done" /\ genOpts.tplDir # ""
  /\ tplFS[TplPath] = <<"x">> \o Placeholder \o <<"}}">>
  /\ bufBytes = Placeholder
  /\ written = <<"x">> \o Placeholder \o <<"}}">>

\* C7 as stated: when the template directory holds no template file for the
\* selected language, the run does not fail and the buffer is written raw.
C7_MissingTemplateWritesRaw ==
  (mpc # "start" /\ genOpts.tplDir # "" /\ TplPath \notin DOMAIN tplFS) =>
     (mpc = "done" /\ written = bufBytes)

\* C7 as amended: the buffer is written raw when no template is loaded, that is
\* when the template directory option is empty or the template file is empty;
\* when a template directory is set and holds no template file for the selected
\* language the run ends in a panic and nothing is written.
C7_NoTemplateLoaded ==
  /\ (mpc # "start" /\ (genOpts.tplDir = "" \/ (TplPath \in DOMAIN tplFS /\ tplFS[TplPath] = <<>>)))
        => (mpc = "done" /\ written = bufBytes)
  /\ (mpc # "start" /\ genOpts.tplDir # "" /\ TplPath \notin DOMAIN tplFS)
        => (mpc = "panic" /\ written = <<>> /\ stdout = <<>>
            /\ (genOpts.output # "stdout" => outFile.exists))

C7_Witness ==
  /\ mpc = "panic"
  /\ genOpts.lang = "zh-CN" /\ genOpts.tplDir # ""
  /\ DOMAIN tplFS # {} /\ TplPath \notin DOMAIN tplFS
  /\ bufBytes # <<>>

\* C10: after a successful run with a named output file, the file holds exactly
\* the generated output.
C10_FileIsOutput ==
  (mpc = "done" /\ genOpts.output # "stdout") => outFile.data = written

(***************************************************************************)
(* envutil.IsWSL                                                           *)
(***************************************************************************)
\* what /proc/version may be: absent (the open fails) or a file with contents
ProcStates ==
  {[exists |-> FALSE, data |-> <<>>]}
    \cup {[exists |-> TRUE, data |-> d] :
            d \in {<<>>, <<"Linux version">>, <<"Microsoft">>,
                   <<"Linux version", "Microsoft">>, <<"Microsoft", "WSL2">>,
                   <<"Linux version", "Microsoft", "WSL2">>}}

\* IsWSL with detectedWSL = true set only when the open succeeded
IsWSL_FlagOnlyOnSuccess(det, contents, pv) ==
  LET probe == ~det
      c     == IF probe /\ pv.exists THEN pv.data ELSE contents
  IN [detected |-> IF probe THEN pv.exists ELSE det,
      contents |-> c,
      opened   |-> IF probe THEN 1 ELSE 0,
      result   |-> Contains(c, "Microsoft")]

\* one call: the new flag and contents, the number of opens made, the result
IsWSL(det, contents, pv) ==
  LET probe == ~det
      c     == IF probe /\ pv.exists THEN pv.data ELSE contents
  IN [detected |-> IF probe THEN TRUE ELSE det,
      contents |-> c,
      opened   |-> IF probe THEN 1 ELSE 0,
      result   |-> Contains(c, "Microsoft")]

InitWSL ==
  /\ detectedWSL = FALSE /\ detectedWSLContents = <<>>
  /\ procVersion \in ProcStates
  /\ opens = 0 /\ results = <<>>
  /\ genOpts = [lang |-> "en", output |-> "stdout", tplDir |-> TplDirDefault]
  /\ tplFS = <<>>
  /\ ColIdle /\ DocIdle /\ MainIdle /\ SigIdle

CallIsWSL ==
  /\ Len(results) < MaxCalls
  /\ LET r == IsWSL(detectedWSL, detectedWSLContents, procVersion)
     IN /\ detectedWSL' = r.detected
        /\ detectedWSLContents' = r.contents
        /\ opens' = opens + r.opened
        /\ results' = Append(results, r.result)
  /\ UNCHANGED <<procVersion, optVars, colVars, docVars, mainVars, sigVars>>

\* the environment: the pseudo-file changes between calls
ProcChange ==
  /\ \E pv \in ProcStates : pv # procVersion /\ procVersion' = pv
  /\ UNCHANGED <<detectedWSL, detectedWSLContents, opens, results>>
  /\ UNCHANGED <<optVars, colVars, docVars, mainVars, sigVars>>

NextWSL == CallIsWSL \/ ProcChange

SpecWSL == InitWSL /\ [][NextWSL]_vars

\* C9: /proc/version is opened at most once, by the first call; after the first
\* call the flag stays true, the cached contents never change, and every call
\* returns what the first call returned.
C9_OpenedOnce ==
  /\ [](/\ opens <= 1
        /\ (results # <<>> => (detectedWSL /\ opens = 1))
        /\ (results = <<>> => (~detectedWSL /\ opens = 0))
        /\ \A i \in 1..Len(results) : results[i] = results[1])
  /\ [][detectedWSL => (/\ detectedWSL'
                        /\ detectedWSLContents' = detectedWSLContents
                        /\ opens' = opens)]_vars

C9_Witness ==
  /\ Len(results) >= 3
  /\ opens = 1
  /\ detectedWSLContents = <<>>
  /\ results[1] = FALSE
  /\ Contains(procVersion.data, "Microsoft")

(***************************************************************************)
(* The signature scan of one line of file text                             *)
(***************************************************************************)
InitSig ==
  /\ text \in SeqsUpTo(SigChars, MaxLineLen)
  /\ lines = <<>> /\ spc = "read"
  /\ genOpts = [lang |-> "en", output |-> "stdout", tplDir |-> TplDirDefault]
  /\ tplFS = <<>>
  /\ ColIdle /\ DocIdle /\ MainIdle /\ WslIdle

\* lines := reg.FindAllString(text, -1), each recorded with TrimRight(line, "{ ")
SigScan ==
  /\ spc = "read"
  /\ lines' = TrimmedLines(FindAllString(<<text>>))
  /\ spc' = "scanned"
  /\ UNCHANGED <<text, optVars, colVars, docVars, mainVars, wslVars>>

NextSig == SigScan

SpecSig == InitSig /\ [][NextSig]_vars

\* the line is a function declaration: func, a name, an opening parenthesis
IsDecl(line) ==
  /\ Len(line) >= 3
  /\ line[1] = "func "
  /\ \E q \in 3..Len(line) : line[q] = "(" /\ \A k \in 2..(q - 1) : line[k] \in WordCh

IsExportedDecl(line) == IsDecl(line) /\ line[2] \in UpperCh

\* C8 as stated: a line is recorded exactly for the declarations with an
\* uppercase-initial name, and a recorded line holds no brace and ends in no space.
C8_ExactlyExportedDecls ==
  spc = "scanned" =>
    /\ (lines # <<>>) <=> IsExportedDecl(text)
    /\ \A n \in 1..Len(lines) :
         /\ lines[n][1] = "func "
         /\ \A k \in 1..Len(lines[n]) : lines[n][k] # "{"
         /\ lines[n][Len(lines[n])] # " "

\* the places of a line where the pattern starts: func, an uppercase letter, one
\* or more further word characters, "(" and, later on the line, ")"
PatternStarts(line) ==
  {p \in 1..Len(line) :
     /\ line[p] = "func "
     /\ \E q \in (p + 3)..Len(line) :
          /\ line[q] = "("
          /\ \A k \in (p + 1)..(q - 1) : line[k] \in WordCh
          /\ line[p + 1] \in UpperCh
          /\ \E r \in (q + 1)..Len(line) : line[r] = ")"}

\* C8 as amended: a line is recorded exactly when the pattern occurs in it (so
\* never for a lowercase-initial name, and not for a one-letter name or for a
\* parameter list that does not close on the line); the recorded line is the text
\* from the first such func to the end of the line without its trailing run of
\* braces and spaces, so it ends in neither, while a brace followed by other
\* text stays.
C8_TextualMatchTrimmed ==
  spc = "scanned" =>
    /\ (lines # <<>>) <=> (PatternStarts(text) # {})
    /\ Len(lines) <= 1
    /\ \A n \in 1..Len(lines) :
         \E p \in PatternStarts(text) :
            /\ \A h \in PatternStarts(text) : p <= h
            /\ Len(lines[n]) <= Len(text) - p + 1
            /\ lines[n] = SubSeq(text, p, p + Len(lines[n]) - 1)
            /\ \A k \in (p + Len(lines[n]))..Len(text) : text[k] \in {"{", " "}
            /\ lines[n][Len(lines[n])] \notin {"{", " "}
            /\ lines[n][1] = "func " /\ lines[n][2] \in UpperCh

C8_Witness ==
  /\ spc = "scanned"
  /\ text = <<"func ", "F", "o", "(", ")", "{">>
  /\ lines = << <<"func ", "F", "o", "(", ")">> >>

====
